---- MODULE Spec2Model ----
(***************************************************************************)
(* Model of src/FigmatoReact.py: the "Generate React Code" button handler, *)
(* the gateway call it makes and create_zip_file (the response packager).  *)
(* Text is a sequence of one-character strings, so that split, startswith, *)
(* strip, join and replace are computed character by character.            *)
(***************************************************************************)
EXTENDS Naturals, Sequences, FiniteSets

\* ---------------------------------------------------------------- bounds
\* Largest number of lines of a line-structured gateway reply.
MaxLines == 4
\* Largest number of fence pieces in the content of a fence-rich reply.
MaxPieces == 4

\* ------------------------------------------------------- program constants
\* The marker prefix '# FILE: ' of line 70.
MARKER == << "#", " ", "F", "I", "L", "E", ":", " " >>
\* len('# FILE: '): the slice line[8:] of line 73 starts after it.
MarkerLen == 8
\* The member name "package.json" of line 98.
PACKAGE_PATH == << "p", "a", "c", "k", "a", "g", "e", ".", "j", "s", "o", "n" >>
\* The member name "tailwind.config.js" of lines 101 and 107.
TAILWIND_PATH ==
    << "t", "a", "i", "l", "w", "i", "n", "d", ".", "c", "o", "n", "f", "i", "g",
       ".", "j", "s" >>
\* The backquote character U+0060, which a TLA+ string literal cannot hold: the
\* model writes it as this token, which is no other character of a text.
BQ == "<backquote>"
\* The two fence markers removed at line 111, in the order they are removed:
\* three backquotes followed by jsx, and three backquotes.
FENCE_JSX == << BQ, BQ, BQ, "j", "s", "x" >>
FENCE == << BQ, BQ, BQ >>
\* str(package_json), lines 84-98: Python's repr of the dict (single quotes).
package_json ==
    << "{", "'", "n", "a", "m", "e", "'", ":", " ", "'", "f", "i",
       "g", "m", "a", "-", "t", "o", "-", "r", "e", "a", "c", "t",
       "'", ",", " ", "'", "v", "e", "r", "s", "i", "o", "n", "'",
       ":", " ", "'", "1", ".", "0", ".", "0", "'", ",", " ", "'",
       "s", "c", "r", "i", "p", "t", "s", "'", ":", " ", "{", "'",
       "s", "t", "a", "r", "t", "'", ":", " ", "'", "r", "e", "a",
       "c", "t", "-", "s", "c", "r", "i", "p", "t", "s", " ", "s",
       "t", "a", "r", "t", "'", ",", " ", "'", "b", "u", "i", "l",
       "d", "'", ":", " ", "'", "r", "e", "a", "c", "t", "-", "s",
       "c", "r", "i", "p", "t", "s", " ", "b", "u", "i", "l", "d",
       "'", "}", ",", " ", "'", "d", "e", "p", "e", "n", "d", "e",
       "n", "c", "i", "e", "s", "'", ":", " ", "{", "'", "r", "e",
       "a", "c", "t", "'", ":", " ", "'", "^", "1", "8", ".", "2",
       ".", "0", "'", ",", " ", "'", "r", "e", "a", "c", "t", "-",
       "d", "o", "m", "'", ":", " ", "'", "^", "1", "8", ".", "2",
       ".", "0", "'", ",", " ", "'", "r", "e", "a", "c", "t", "-",
       "s", "c", "r", "i", "p", "t", "s", "'", ":", " ", "'", "5",
       ".", "0", ".", "1", "'", ",", " ", "'", "t", "a", "i", "l",
       "w", "i", "n", "d", "c", "s", "s", "'", ":", " ", "'", "^",
       "3", ".", "3", ".", "0", "'", "}", "}" >>
\* The literal tailwind_config of lines 102-106, with its source indentation.
tailwind_config ==
    << "m", "o", "d", "u", "l", "e", ".", "e", "x", "p", "o", "r",
       "t", "s", " ", "=", " ", "{", "\n", " ", " ", " ", " ", " ",
       " ", " ", " ", " ", " ", " ", " ", " ", " ", " ", " ", "c",
       "o", "n", "t", "e", "n", "t", ":", " ", "[", "\"", ".", "/",
       "s", "r", "c", "/", "*", "*", "/", "*", ".", "{", "j", "s",
       ",", "j", "s", "x", "}", "\"", "]", ",", "\n", " ", " ", " ",
       " ", " ", " ", " ", " ", " ", " ", " ", " ", " ", " ", " ",
       " ", "t", "h", "e", "m", "e", ":", " ", "{", " ", "e", "x",
       "t", "e", "n", "d", ":", " ", "{", "}", " ", "}", ",", "\n",
       " ", " ", " ", " ", " ", " ", " ", " ", " ", " ", " ", " ",
       " ", " ", " ", " ", "p", "l", "u", "g", "i", "n", "s", ":",
       " ", "[", "]", "\n", " ", " ", " ", " ", " ", " ", " ", " ",
       " ", " ", " ", " ", "}" >>
\* The characters str.strip() removes (the ASCII whitespace the model uses).
WhiteSpace == { " ", "\t", "\n", "\r", "\f" }
\* Python's None; no text equals it, since a text holds one-character strings.
NoneVal == << "<None>" >>

\* ------------------------------------------------------------ str methods
\* s.startswith(p)
StartsWith(s, p) == Len(s) >= Len(p) /\ SubSeq(s, 1, Len(p)) = p

\* s.lstrip(): drop the leading whitespace characters.
RECURSIVE LStrip(_)
LStrip(s) ==
    IF s = << >> THEN << >>
    ELSE IF Head(s) \in WhiteSpace THEN LStrip(Tail(s)) ELSE s

\* s.rstrip(): drop the trailing whitespace characters.
RECURSIVE RStrip(_)
RStrip(s) ==
    IF s = << >> THEN << >>
    ELSE IF s[Len(s)] \in WhiteSpace THEN RStrip(SubSeq(s, 1, Len(s) - 1)) ELSE s

\* A plausible slip: only the leading whitespace is removed.
StripLeadingOnly(s) == LStrip(s)

\* s.strip()
Strip(s) == RStrip(LStrip(s))

\* s.find(pat) as a 1-based index: the leftmost occurrence, 0 when there is none.
Find(s, pat) ==
    LET hits == { k \in 1..Len(s) : k + Len(pat) <= Len(s) + 1
                                     /\ SubSeq(s, k, k + Len(pat) - 1) = pat } IN
    IF hits = { } THEN 0 ELSE CHOOSE k \in hits : \A h \in hits : k <= h

\* s.split('\n'): always at least one line; the separators are dropped.
RECURSIVE SplitLines(_)
SplitLines(s) ==
    LET k == Find(s, << "\n" >>) IN
    IF k = 0 THEN << s >>
    ELSE << SubSeq(s, 1, k - 1) >> \o SplitLines(SubSeq(s, k + 1, Len(s)))

\* '\n'.join(ls)
RECURSIVE JoinLines(_)
JoinLines(ls) ==
    IF ls = << >> THEN << >>
    ELSE IF Len(ls) = 1 THEN ls[1]
    ELSE ls[1] \o << "\n" >> \o JoinLines(Tail(ls))

\* s.replace(pat, ''): the occurrences are found from the left, each search
\* starting after the occurrence before it, and removed.
RECURSIVE RemoveAll(_, _)
RemoveAll(s, pat) ==
    LET k == Find(s, pat) IN
    IF k = 0 THEN s
    ELSE SubSeq(s, 1, k - 1) \o RemoveAll(SubSeq(s, k + Len(pat), Len(s)), pat)

\* A plausible slip: only the tagged fence is removed.
StripFencesJsxOnly(content) == Strip(RemoveAll(content, FENCE_JSX))

\* Line 111: content.replace(FENCE_JSX, '').replace(FENCE, '').strip()
StripFences(content) == Strip(RemoveAll(RemoveAll(content, FENCE_JSX), FENCE))

\* Truthiness of a Python str-or-None: None and '' are falsy.
Truthy(v) == v # NoneVal /\ v # << >>

\* A plausible slip: the marker is looked for after leading whitespace.
IsMarkerAfterLStrip(line) == StartsWith(LStrip(line), MARKER)

\* Line 70: line.startswith('# FILE: ')
IsMarker(line) == StartsWith(line, MARKER)

\* Line 73: line[8:].strip()
PathOf(line) == Strip(SubSeq(line, MarkerLen + 1, Len(line)))

\* ------------------------------------------------------------------ dict
\* The dict files is the sequence of its items in insertion order.
HasKey(d, k) == \E i \in 1..Len(d) : d[i].path = k

Lookup(d, k) == d[CHOOSE i \in 1..Len(d) : d[i].path = k].content

Keys(d) == { d[i].path : i \in 1..Len(d) }

\* A plausible slip: an existing key keeps its first value (setdefault).
DictSetKeepFirst(d, k, v) ==
    IF HasKey(d, k) THEN d ELSE Append(d, [path |-> k, content |-> v])

\* A plausible slip: a key assigned again moves to the end of the dict.
DictSetMoveToEnd(d, k, v) ==
    SelectSeq(d, LAMBDA e : e.path # k) \o << [path |-> k, content |-> v] >>

\* d[k] = v: a new key is appended; an existing key keeps its position.
DictSet(d, k, v) ==
    IF HasKey(d, k)
    THEN [i \in 1..Len(d) |->
            IF d[i].path = k THEN [path |-> k, content |-> v] ELSE d[i]]
    ELSE Append(d, [path |-> k, content |-> v])

\* Lines 72 and 79: files[current_file] = '\n'.join(current_content).strip()
Flush(d, k, content_lines) == DictSet(d, k, Strip(JoinLines(content_lines)))

\* ------------------------------------------------------------------ state
VARIABLES
    pc,                  \* position in the button handler
    api_key,             \* sidebar text input, line 122
    design_description,  \* text area, line 127
    react_code,          \* what generate_react_code returned, line 144
    lines,               \* code_response.split('\n'), line 69
    idx,                 \* number of lines the loop of line 69 has consumed
    files,               \* the dict of line 65
    current_file,        \* line 66
    current_content,     \* line 67
    archive,             \* the members written to zipf, in order
    item,                \* number of items the loop of line 110 has consumed
    remote_calls,        \* calls of generate_react_code made by this run
    ui                   \* what this run of the script showed, in order

vars ==
    << pc, api_key, design_description, react_code, lines, idx, files,
       current_file, current_content, archive, item, remote_calls, ui >>

\* ----------------------------------------------------------------- inputs
\* What the user may have typed: nothing, or something.
ApiKeys == { "", "sk-1" }
Descriptions == { "", "a login page" }

\* The lines a line-structured reply is made of: markers for two plain paths
\* (one with blanks around it), for the two scaffolding paths and for a path
\* that is blank; an indented content line and an empty one.
LineA == MARKER \o << "a" >>
LineB == MARKER \o << " ", "b", " " >>
LinePackage == MARKER \o PACKAGE_PATH
LineTailwind == MARKER \o TAILWIND_PATH
LineBlankPath == MARKER \o << "\t" >>
LineIndented == << " ", " ", "y", " " >>
LineEmpty == << >>

LineVocab ==
    { LineA, LineB, LinePackage, LineTailwind, LineBlankPath, LineIndented,
      LineEmpty }

\* The pieces the content of a fence-rich reply is made of.
FencePieces ==
    { << BQ >>, FENCE, FENCE_JSX, << "j", "s", "x" >>, << "\n" >>, << "a" >> }

RECURSIVE Concat(_)
Concat(ss) == IF ss = << >> THEN << >> ELSE Head(ss) \o Concat(Tail(ss))

\* Replies of one to MaxLines lines of LineVocab.
LineTexts ==
    { JoinLines(ls) : ls \in UNION { [1..k -> LineVocab] : k \in 1..MaxLines } }

\* Replies of one block, at path a, whose content is up to MaxPieces pieces.
FenceTexts ==
    { LineA \o << "\n" >> \o Concat(ps) :
        ps \in UNION { [1..k -> FencePieces] : k \in 1..MaxPieces } }

\* The end-to-end reply of the prompt's format (lines 31-34): one fenced block.
ReplyEndToEnd ==
    << "#", " ", "F", "I", "L", "E", ":", " ", "s", "r", "c", "/",
       "A", "p", "p", ".", "j", "s", "\n", BQ, BQ, BQ, "j", "s",
       "x", "\n", "e", "x", "p", "o", "r", "t", " ", "d", "e", "f",
       "a", "u", "l", "t", " ", "f", "u", "n", "c", "t", "i", "o",
       "n", " ", "A", "p", "p", "(", ")", "{", "r", "e", "t", "u",
       "r", "n", " ", "n", "u", "l", "l", ";", "}", "\n", BQ, BQ,
       BQ, "\n" >>
\* Lines that look like markers and are none: indented, no space, lower case.
ReplyAlmostMarkers ==
    << " ", " ", "#", " ", "F", "I", "L", "E", ":", " ", "a", "\n",
       "#", "F", "I", "L", "E", ":", " ", "a", "\n", "#", " ", "f",
       "i", "l", "e", ":", " ", "a", "\n", "x" >>
\* Text before the first marker, a marker with no path at all, then a file.
ReplyNoPath ==
    << "i", "n", "t", "r", "o", "\n", "#", " ", "F", "I", "L", "E",
       ":", " ", "\n", "l", "o", "s", "t", "\n", "#", " ", "F", "I",
       "L", "E", ":", " ", "a", "\n", "k", "e", "p", "t" >>
\* A fenced styling configuration of the reply's own.
ReplyTailwind ==
    << "#", " ", "F", "I", "L", "E", ":", " ", "t", "a", "i", "l",
       "w", "i", "n", "d", ".", "c", "o", "n", "f", "i", "g", ".",
       "j", "s", "\n", BQ, BQ, BQ, "j", "s", "x", "\n", "m", "i",
       "n", "e", "\n", BQ, BQ, BQ >>
\* A reply with CRLF line ends.
ReplyCrLf ==
    << "#", " ", "F", "I", "L", "E", ":", " ", "a", "\r", "\n", "\r",
       "\n", " ", " ", "x", "\r", "\n", "#", " ", "F", "I", "L", "E",
       ":", " ", "b", "\r", "\n" >>

ScenarioTexts ==
    { ReplyEndToEnd, ReplyAlmostMarkers, ReplyNoPath, ReplyTailwind, ReplyCrLf }

\* Lines 57-62: the reply's text, '' or None.
Responses == LineTexts \cup FenceTexts \cup ScenarioTexts \cup { << >>, NoneVal }

\* ------------------------------------------------------------------- Init
Init ==
    /\ pc = "idle"
    /\ api_key = ""
    /\ design_description = ""
    /\ react_code = NoneVal
    /\ lines = << >>
    /\ idx = 0
    /\ files = << >>
    /\ current_file = NoneVal
    /\ current_content = << >>
    /\ archive = << >>
    /\ item = 0
    /\ remote_calls = 0
    /\ ui = << >>

\* ---------------------------------------------------------------- actions
\* A plausible slip: the description is not validated.
ClickNoDescriptionCheck(k, d) ==
    /\ pc \in { "idle", "end" }
    /\ api_key' = k
    /\ design_description' = d
    /\ react_code' = NoneVal
    /\ lines' = << >>
    /\ idx' = 0
    /\ files' = << >>
    /\ current_file' = NoneVal
    /\ current_content' = << >>
    /\ archive' = << >>
    /\ item' = 0
    /\ remote_calls' = 0
    /\ IF k = ""
       THEN /\ ui' = << "error: api key" >>
            /\ pc' = "end"
       ELSE /\ ui' = << "spinner" >>
            /\ pc' = "call"

\* Lines 137-143: the script runs afresh on a click of the button, with the
\* widgets' values k and d, and validates them.
ClickWith(k, d) ==
    /\ pc \in { "idle", "end" }
    /\ api_key' = k
    /\ design_description' = d
    /\ react_code' = NoneVal
    /\ lines' = << >>
    /\ idx' = 0
    /\ files' = << >>
    /\ current_file' = NoneVal
    /\ current_content' = << >>
    /\ archive' = << >>
    /\ item' = 0
    /\ remote_calls' = 0
    /\ IF k = ""
       THEN /\ ui' = << "error: api key" >>
            /\ pc' = "end"
       ELSE IF d = ""
       THEN /\ ui' = << "error: description" >>
            /\ pc' = "end"
       ELSE /\ ui' = << "spinner" >>
            /\ pc' = "call"

Click == \E k \in ApiKeys, d \in Descriptions : ClickWith(k, d)

\* Lines 144-149 and 158-159: generate_react_code returns the reply r.
GenerateReturn ==
    /\ pc = "call"
    /\ \E r \in Responses :
         /\ react_code' = r
         /\ remote_calls' = remote_calls + 1
         /\ IF Truthy(r)
            THEN /\ ui' = Append(ui, "success")
                 /\ pc' = "zip"
            ELSE /\ ui' = Append(ui, "error: failed")
                 /\ pc' = "end"
    /\ UNCHANGED << api_key, design_description, lines, idx, files, current_file,
                    current_content, archive, item >>

\* Lines 64-69: create_zip_file starts; the reply is split into lines.
ZipStart ==
    /\ pc = "zip"
    /\ files' = << >>
    /\ current_file' = NoneVal
    /\ current_content' = << >>
    /\ lines' = SplitLines(react_code)
    /\ idx' = 0
    /\ pc' = "loop"
    /\ UNCHANGED << api_key, design_description, react_code, archive, item,
                    remote_calls, ui >>

\* A plausible slip: else for elif current_file at line 75.
LoopLineAccumulateAlways ==
    /\ pc = "loop"
    /\ idx < Len(lines)
    /\ LET line == lines[idx + 1] IN
         IF IsMarker(line)
         THEN /\ files' = IF Truthy(current_file)
                          THEN Flush(files, current_file, current_content)
                          ELSE files
              /\ current_file' = PathOf(line)
              /\ current_content' = << >>
         ELSE /\ current_content' = Append(current_content, line)
              /\ UNCHANGED << files, current_file >>
    /\ idx' = idx + 1
    /\ UNCHANGED << pc, api_key, design_description, react_code, lines, archive,
                    item, remote_calls, ui >>

\* Lines 69-76: one iteration of the parsing loop.
LoopLine ==
    /\ pc = "loop"
    /\ idx < Len(lines)
    /\ LET line == lines[idx + 1] IN
         IF IsMarker(line)
         THEN /\ files' = IF Truthy(current_file)
                          THEN Flush(files, current_file, current_content)
                          ELSE files
              /\ current_file' = PathOf(line)
              /\ current_content' = << >>
         ELSE IF Truthy(current_file)
         THEN /\ current_content' = Append(current_content, line)
              /\ UNCHANGED << files, current_file >>
         ELSE UNCHANGED << files, current_file, current_content >>
    /\ idx' = idx + 1
    /\ UNCHANGED << pc, api_key, design_description, react_code, lines, archive,
                    item, remote_calls, ui >>

\* Lines 78-79: the loop is over; the file still open is stored.
LoopEnd ==
    /\ pc = "loop"
    /\ idx = Len(lines)
    /\ files' = IF Truthy(current_file)
                THEN Flush(files, current_file, current_content)
                ELSE files
    /\ pc' = "package"
    /\ UNCHANGED << api_key, design_description, react_code, lines, idx,
                    current_file, current_content, archive, item, remote_calls, ui >>

\* Lines 81-98: the archive is opened and package.json written.
WritePackage ==
    /\ pc = "package"
    /\ archive' = Append(archive, [name |-> PACKAGE_PATH, data |-> package_json])
    /\ pc' = "tailwind"
    /\ UNCHANGED << api_key, design_description, react_code, lines, idx, files,
                    current_file, current_content, item, remote_calls, ui >>

\* A plausible slip: the default configuration is written whatever was parsed.
WriteTailwindAlways ==
    /\ pc = "tailwind"
    /\ archive' = Append(archive, [name |-> TAILWIND_PATH, data |-> tailwind_config])
    /\ item' = 0
    /\ pc' = "files"
    /\ UNCHANGED << api_key, design_description, react_code, lines, idx, files,
                    current_file, current_content, remote_calls, ui >>

\* Lines 100-107: the default configuration, unless one was parsed.
WriteTailwind ==
    /\ pc = "tailwind"
    /\ archive' = IF ~HasKey(files, TAILWIND_PATH)
                  THEN Append(archive,
                              [name |-> TAILWIND_PATH, data |-> tailwind_config])
                  ELSE archive
    /\ item' = 0
    /\ pc' = "files"
    /\ UNCHANGED << api_key, design_description, react_code, lines, idx, files,
                    current_file, current_content, remote_calls, ui >>

\* Lines 110-112: one iteration of the loop over files.items().
WriteFile ==
    /\ pc = "files"
    /\ item < Len(files)
    /\ archive' = Append(archive, [name |-> files[item + 1].path,
                                   data |-> StripFences(files[item + 1].content)])
    /\ item' = item + 1
    /\ UNCHANGED << pc, api_key, design_description, react_code, lines, idx, files,
                    current_file, current_content, remote_calls, ui >>

\* Lines 114-115 and 151-157: the buffer is returned and offered for download.
ZipReturn ==
    /\ pc = "files"
    /\ item = Len(files)
    /\ ui' = Append(ui, "download")
    /\ pc' = "end"
    /\ UNCHANGED << api_key, design_description, react_code, lines, idx, files,
                    current_file, current_content, archive, item, remote_calls >>

Next ==
    \/ Click
    \/ GenerateReturn
    \/ ZipStart
    \/ LoopLine
    \/ LoopEnd
    \/ WritePackage
    \/ WriteTailwind
    \/ WriteFile
    \/ ZipReturn

Spec == Init /\ [][Next]_vars

\* =============================================================== properties
\* What the properties say about a reply is stated over its lines, with
\* definitions of their own (not the ones the handler's actions use).

Min(S) == CHOOSE x \in S : \A y \in S : x <= y
Max(S) == CHOOSE x \in S : \A y \in S : x >= y

\* The line starts with the eight characters of the marker.
LineStartsWithMarker(l) ==
    /\ Len(l) >= Len(MARKER)
    /\ \A k \in 1..Len(MARKER) : l[k] = MARKER[k]

\* s without its leading and trailing whitespace characters.
Trimmed(s) ==
    LET keep == { k \in 1..Len(s) : s[k] \notin WhiteSpace } IN
    IF keep = { } THEN << >> ELSE SubSeq(s, Min(keep), Max(keep))

\* p occurs in s.
Contains(s, p) ==
    \E k \in 1..(Len(s) + 1) :
        k + Len(p) <= Len(s) + 1 /\ SubSeq(s, k, k + Len(p) - 1) = p

\* The marker lines of the reply, and the path each names.
MarkerIdx == { i \in 1..Len(lines) : LineStartsWithMarker(lines[i]) }
PathAt(i) == Trimmed(SubSeq(lines[i], Len(MARKER) + 1, Len(lines[i])))

\* The lines of the block marker i opens: up to the next marker or the end.
BlockEnd(i) ==
    LET later == { j \in MarkerIdx : j > i } IN
    IF later = { } THEN Len(lines) ELSE Min(later) - 1
BlockOf(i) == SubSeq(lines, i + 1, BlockEnd(i))

\* create_zip_file has returned and its archive is offered for download.
Done == pc = "end" /\ ui # << >> /\ ui[Len(ui)] = "download"
\* The parsing loop and the store that follows it are over.
ParseDone == pc \in { "package", "tailwind", "files" } \/ Done
\* The markers whose block is complete, hence stored if its path is not empty.
Closed ==
    IF pc = "loop"
    THEN { i \in MarkerIdx : \E j \in MarkerIdx : i < j /\ j <= idx }
    ELSE IF ParseDone THEN MarkerIdx ELSE { }
\* The paths that have a complete block.
ClosedPaths == { PathAt(i) : i \in Closed } \ { << >> }
\* The last complete block of path p.
LastClosed(p) == Max({ i \in Closed : PathAt(i) = p })

\* The archive members of a name.
Members(n) == { k \in 1..Len(archive) : archive[k].name = n }
\* Reading a name back from the archive yields the last member of that name.
ReadBack(n) == archive[Max(Members(n))].data

\* C1: the finished archive has no two members of the same path: every path
\* of the FileSet and each of the two scaffolding paths is a member exactly
\* once, also when the FileSet has an entry at a scaffolding path.
C1_NoDuplicateMembers ==
    Done =>
        \A n \in Keys(files) \cup { PACKAGE_PATH, TAILWIND_PATH } :
            Cardinality(Members(n)) = 1

\* C2: when the FileSet has an entry at package.json, what is read back at
\* package.json from the finished archive is the fixed manifest.
C2_ManifestOverwritesParsed ==
    (Done /\ HasKey(files, PACKAGE_PATH)) => ReadBack(PACKAGE_PATH) = package_json

\* C3: the default styling configuration is written if and only if the
\* FileSet has no entry at tailwind.config.js; when it has one, the only member
\* at that path holds the parsed content with the fences stripped.
C3_TailwindDefaultIffAbsent ==
    Done =>
        /\ Cardinality(Members(TAILWIND_PATH)) = 1
        /\ IF TAILWIND_PATH \in ClosedPaths
           THEN /\ HasKey(files, TAILWIND_PATH)
                /\ ReadBack(TAILWIND_PATH) = StripFences(Lookup(files, TAILWIND_PATH))
           ELSE /\ ~HasKey(files, TAILWIND_PATH)
                /\ archive[2] = [name |-> TAILWIND_PATH, data |-> tailwind_config]

\* C3's case: a reply brought its own, fenced, configuration and it was kept.
C3_Witness ==
    /\ Done
    /\ HasKey(files, TAILWIND_PATH)
    /\ Contains(Lookup(files, TAILWIND_PATH), FENCE_JSX)
    /\ ReadBack(TAILWIND_PATH) # Lookup(files, TAILWIND_PATH)
    /\ ReadBack(TAILWIND_PATH) # tailwind_config

\* The reply being packaged has no line that starts with the marker.
NoMarkerReply ==
    /\ pc = "loop" \/ ParseDone
    /\ MarkerIdx = { }

\* C4: for a reply with no line starting with the marker, the FileSet stays
\* empty, no step of create_zip_file is stuck, and the finished archive holds
\* exactly the two scaffolding members.
C4_NoMarkerOnlyScaffolding ==
    NoMarkerReply =>
        /\ files = << >>
        /\ current_content = << >>
        /\ Done \/ ENABLED Next
        /\ Done =>
              archive = << [name |-> PACKAGE_PATH, data |-> package_json],
                           [name |-> TAILWIND_PATH, data |-> tailwind_config] >>

\* C4's case: a finished archive for a reply of several lines, none a marker,
\* one of which holds the marker after leading blanks.
C4_Witness ==
    /\ Done
    /\ NoMarkerReply
    /\ Len(lines) > 1
    /\ \E i \in 1..Len(lines) : Contains(lines[i], MARKER)

\* The members written by the loop over the FileSet: the last item ones.
FileMembers == { k \in 1..Len(archive) : k > Len(archive) - item }

\* C5: no member written from the FileSet contains the tagged fence or the
\* plain fence, however they occur in the parsed content.
C5_NoFenceInMembers ==
    \A k \in FileMembers :
        /\ ~Contains(archive[k].data, FENCE_JSX)
        /\ ~Contains(archive[k].data, FENCE)

\* C5's case: a written entry whose parsed content has a run of more than
\* three backquotes, a tagged fence, and a line break.
C5_Witness ==
    /\ item > 0
    /\ LET content == files[item].content IN
         /\ Contains(content, << BQ, BQ, BQ, BQ >>)
         /\ Contains(content, FENCE_JSX)
         /\ Contains(content, << "\n" >>)

\* A line with nothing but whitespace on it.
IsBlankLine(l) == \A k \in 1..Len(l) : l[k] \in WhiteSpace

\* ls without its leading and trailing blank lines.
TrimBlankLines(ls) ==
    LET keep == { k \in 1..Len(ls) : ~IsBlankLine(ls[k]) } IN
    IF keep = { } THEN << >> ELSE SubSeq(ls, Min(keep), Max(keep))

\* C6, as claimed: the content stored for a block is its lines joined by
\* newlines, verbatim but for the leading and trailing blank lines.
C6_StoredVerbatimButBlankLines ==
    \A p \in ClosedPaths :
        /\ HasKey(files, p)
        /\ Lookup(files, p) = JoinLines(TrimBlankLines(BlockOf(LastClosed(p))))

\* C6, amended: as soon as a block with a path is complete, the content
\* stored under its path is its lines joined by newlines, without the
\* whitespace characters that lead and trail the joined text: the blank
\* lines, and also the indentation of the first line kept and the blanks that
\* end the last line kept. No other character is altered.
C6_StoredContentIsTrimmedBlock ==
    \A p \in ClosedPaths :
        /\ HasKey(files, p)
        /\ Lookup(files, p) = Trimmed(JoinLines(BlockOf(LastClosed(p))))

\* C6's case: a block stored while the loop runs, which has a blank line
\* before an indented line, so that the stored content lost both.
C6_Witness ==
    /\ pc = "loop"
    /\ \E p \in ClosedPaths :
         LET block == BlockOf(LastClosed(p)) IN
           /\ Len(block) > 1
           /\ IsBlankLine(block[1])
           /\ Lookup(files, p) # << >>
           /\ Lookup(files, p) # JoinLines(TrimBlankLines(block))

\* The markers of path p, in the whole reply.
MarkersOf(p) == { i \in MarkerIdx : PathAt(i) = p }

\* C7: once parsing is over the FileSet has exactly one entry for each path
\* a marker names, and none else; its content is that of the last block of
\* the path, whatever blocks of this or another path come before or after.
C7_LastBlockWins ==
    ParseDone =>
        /\ Keys(files) = { PathAt(i) : i \in MarkerIdx } \ { << >> }
        /\ \A p \in Keys(files) :
             /\ Cardinality({ k \in 1..Len(files) : files[k].path = p }) = 1
             /\ Lookup(files, p) = Strip(JoinLines(BlockOf(Max(MarkersOf(p)))))

\* C7's case: a path with two blocks of different content, the first of
\* which is not empty, and an entry at another path.
C7_Witness ==
    /\ ParseDone
    /\ Cardinality(Keys(files)) > 1
    /\ \E p \in Keys(files) :
         \E i, j \in MarkersOf(p) :
            /\ i < j
            /\ Strip(JoinLines(BlockOf(i))) # << >>
            /\ Strip(JoinLines(BlockOf(i))) # Strip(JoinLines(BlockOf(j)))

\* The paths of the first n lines' markers, each once, in the order in which
\* they are first finalized (the order of the first marker of each path).
RECURSIVE FirstFinalized(_)
FirstFinalized(n) ==
    IF n = 0 THEN << >>
    ELSE LET before == FirstFinalized(n - 1) IN
         IF n \in MarkerIdx /\ PathAt(n) # << >>
            /\ \A k \in 1..Len(before) : before[k] # PathAt(n)
         THEN Append(before, PathAt(n))
         ELSE before

\* The same paths in the order in which they are last finalized: a path
\* finalized again comes after the paths finalized in between.
RECURSIVE LastFinalized(_)
LastFinalized(n) ==
    IF n = 0 THEN << >>
    ELSE LET before == LastFinalized(n - 1) IN
         IF n \in MarkerIdx /\ PathAt(n) # << >>
         THEN Append(SelectSeq(before, LAMBDA q : q # PathAt(n)), PathAt(n))
         ELSE before

\* The names of the archive's members, in the order written.
MemberNames == [k \in 1..Len(archive) |-> archive[k].name]

\* The scaffolding names that open the archive.
ScaffoldingNames ==
    IF TAILWIND_PATH \in { PathAt(i) : i \in MarkerIdx }
    THEN << PACKAGE_PATH >>
    ELSE << PACKAGE_PATH, TAILWIND_PATH >>

\* C8, as claimed: the manifest, the styling configuration if injected, then
\* the FileSet entries in the order finalized, a path finalized again coming
\* after the paths finalized before that.
C8_OrderOfLastFinalization ==
    Done => MemberNames = ScaffoldingNames \o LastFinalized(Len(lines))

\* C8, amended: the manifest, the styling configuration if injected, then
\* the FileSet entries in the order in which each path was first finalized;
\* a path finalized again keeps the place of its first finalization.
C8_OrderOfFirstFinalization ==
    Done => MemberNames = ScaffoldingNames \o FirstFinalized(Len(lines))

\* C8's case: a finished archive for a reply in which a path is finalized
\* again after another path.
C8_Witness ==
    /\ Done
    /\ FirstFinalized(Len(lines)) # LastFinalized(Len(lines))

\* C9: the gateway is called only with a credential and a description; when
\* either is missing the run ends with an error, no call and no archive; and
\* packaging happens only after the one call returned text that is not empty.
C9_CallOnlyWhenValid ==
    /\ remote_calls <= 1
    /\ (pc = "call" \/ remote_calls > 0) =>
          (api_key # "" /\ design_description # "")
    /\ (pc # "idle" /\ (api_key = "" \/ design_description = "")) =>
          /\ pc = "end"
          /\ ui \in { << "error: api key" >>, << "error: description" >> }
          /\ remote_calls = 0
          /\ archive = << >>
    /\ (pc \in { "zip", "loop", "package", "tailwind", "files" } \/ archive # << >>) =>
          /\ remote_calls = 1
          /\ react_code # NoneVal
          /\ Len(react_code) > 0

\* C9's case: a submission with a credential and no description has ended.
C9_Witness ==
    /\ pc = "end"
    /\ api_key # ""
    /\ design_description = ""
    /\ ui = << "error: description" >>

\* The last marker among the lines the loop has consumed, 0 when none.
LastMarkerSeen ==
    LET seen == { i \in MarkerIdx : i <= idx } IN
    IF seen = { } THEN 0 ELSE Max(seen)

\* C10: while the loop runs, the lines accumulated are exactly those that
\* follow the last marker consumed, and only if that marker has a path that
\* is not blank; the FileSet has an entry for exactly the complete blocks
\* whose path is not blank; no entry and no member has an empty path.
C10_AccumulateOnlyUnderAPath ==
    /\ pc = "loop" =>
          /\ current_content =
                IF LastMarkerSeen > 0 /\ PathAt(LastMarkerSeen) # << >>
                THEN SubSeq(lines, LastMarkerSeen + 1, idx)
                ELSE << >>
          /\ Keys(files) = ClosedPaths
    /\ << >> \notin Keys(files)
    /\ \A k \in 1..Len(archive) : archive[k].name # << >>

\* C10's case: the loop has consumed a line before any marker, a block with
\* a path, a marker whose path is blank that closed it, and a line after it.
C10_Witness ==
    /\ pc = "loop"
    /\ idx = Len(lines)
    /\ 1 \notin MarkerIdx
    /\ LastMarkerSeen > 0
    /\ LastMarkerSeen < idx
    /\ PathAt(LastMarkerSeen) = << >>
    /\ files # << >>
    /\ current_content = << >>
====
